---------------------------- MODULE Spec2Model ----------------------------
(***************************************************************************)
(* A model of src/main.py: the price database (Database.Elem / Price),     *)
(* the per-research payback generator (Research.get_payback_values), the   *)
(* merged generator (get_next_payback_values) and the form application     *)
(* that drives them (NextResearches, QueryPriceForm, EditStateForm,        *)
(* IdleAirport).                                                           *)
(*                                                                         *)
(* Numbers.  The program computes with Python floats; the model computes   *)
(* with exact rationals <<n, d>> (d > 0, lowest terms).  None is NoneVal.  *)
(* Recorded amounts are positive, as the prices of the game are.           *)
(* Python dicts keep insertion order, so a dict is a sequence of entries.  *)
(***************************************************************************)
EXTENDS Integers, Sequences, FiniteSets, TLC

(***************************************************************************)
(* Bounds of the model.                                                    *)
(***************************************************************************)
\* highest research level the actions drive a research to
MaxLevel == 3
\* number of pulls of a generator that the generator specifications follow
MaxPulls == 5
\* rows of the main form's grid (range(10) in the program, scaled down)
GridRows == 3
\* number of Elem method calls the specification of the Elem follows
MaxCalls == 3
\* number of handlers that change db or a level the application is followed for
MaxOps == 3

(***************************************************************************)
(* Exact rational arithmetic (the idealisation of float arithmetic).       *)
(***************************************************************************)
RECURSIVE GCD(_, _)
GCD(a, b) == IF b = 0 THEN a ELSE GCD(b, a % b)

Abs(n) == IF n < 0 THEN 0 - n ELSE n

NoneVal == <<0, 0>>

IsNone(x) == x[2] = 0

RNorm(n, d) == LET g == GCD(Abs(n), d) IN <<n \div g, d \div g>>

R(n) == <<n, 1>>

RAdd(a, b) ==
    LET l == (a[2] \div GCD(a[2], b[2])) * b[2]
    IN  RNorm(a[1] * (l \div a[2]) + b[1] * (l \div b[2]), l)

RMul(a, b) ==
    LET g1 == GCD(Abs(a[1]), b[2])
        g2 == GCD(Abs(b[1]), a[2])
    IN  RNorm((a[1] \div g1) * (b[1] \div g2), (a[2] \div g2) * (b[2] \div g1))

\* a / b for b > 0
RDiv(a, b) == RMul(a, <<b[2], b[1]>>)

RLess(a, b) == a[1] * b[2] < b[1] * a[2]

RLeq(a, b) == a[1] * b[2] <= b[1] * a[2]

RECURSIVE RPowNat(_, _)
RPowNat(m, k) == IF k = 0 THEN R(1) ELSE RMul(m, RPowNat(m, k - 1))

\* m ** k for m > 0 and any integer k
RPow(m, k) == IF k >= 0 THEN RPowNat(m, k) ELSE RPowNat(<<m[2], m[1]>>, 0 - k)

RECURSIVE RSum(_)
RSum(s) == IF s = <<>> THEN R(0) ELSE RAdd(Head(s), RSum(Tail(s)))

\* statistics.mean: StatisticsError on no data is the caller's case
RMean(s) == RDiv(RSum(s), R(Len(s)))

RECURSIVE Pow10(_)
Pow10(e) == IF e = 0 THEN 1 ELSE 10 * Pow10(e - 1)

\* itertools.islice(it, n)
Take(s, n) == SubSeq(s, 1, IF Len(s) < n THEN Len(s) ELSE n)

RECURSIVE SelectIdx(_, _, _)
SelectIdx(s, Test(_), i) ==
    IF i > Len(s) THEN 0
    ELSE IF Test(s[i]) THEN i ELSE SelectIdx(s, Test, i + 1)

RECURSIVE Concat(_)
Concat(ss) == IF ss = <<>> THEN <<>> ELSE Head(ss) \o Concat(Tail(ss))

Reverse(s) == [i \in 1..Len(s) |-> s[Len(s) + 1 - i]]

(***************************************************************************)
(* Unit, UnitStorage, factor_price.                                        *)
(***************************************************************************)
UnitDb ==
    << <<"", 0>>, <<"M", 6>>, <<"B", 9>>, <<"T", 12>>, <<"q", 15>>, <<"Q", 18>>,
       <<"s", 21>>, <<"S", 24>>, <<"o", 27>>, <<"N", 30>>, <<"d", 33>>,
       <<"U", 36>>, <<"D", 39>>, <<"Td", 42>>, <<"qd", 45>>, <<"Qd", 48>> >>

is_valid_unit_short(unit_short) ==
    \E i \in 1..Len(UnitDb) : UnitDb[i][1] = unit_short

\* the exponent of the unit with this short code (a KeyError when absent:
\* callers test is_valid_unit_short first, or handle the failure)
get_unit_for_short(unit_short) ==
    UnitDb[CHOOSE i \in 1..Len(UnitDb) : UnitDb[i][1] = unit_short][2]

Unit_multiplier(exp) == Pow10(exp)

\* Decimal.adjusted(): the exponent of the most significant digit; 0 for 0
RECURSIVE Adjusted(_)
Adjusted(x) ==
    IF x[1] = 0 THEN 0
    ELSE IF RLeq(R(10), x) THEN 1 + Adjusted(RDiv(x, R(10)))
    ELSE IF RLess(x, R(1)) THEN Adjusted(RMul(x, R(10))) - 1
    ELSE 0

\* ROUND_HALF_EVEN of q + r / d
RoundHalfEven(q, r, d) ==
    IF 2 * r > d THEN q + 1 ELSE IF 2 * r = d THEN q + (q % 2) ELSE q

\* the integer nearest to the rational y
RoundRational(y) == RoundHalfEven(y[1] \div y[2], y[1] % y[2], y[2])

\* Decimal.quantize to k fractional digits, ROUND_HALF_EVEN
Quantize(x, k) == RNorm(RoundRational(RMul(x, R(Pow10(k)))), Pow10(k))

\* x.scaleb(-exp).quantize(q), with the unit of the exponent
ScaleAndQuantize(price, exp, k) == <<Quantize(RDiv(price, R(Pow10(exp))), k), exp>>

\* the branches of factor_price on exp_adjusted
FactorByMagnitude(price, exp_adjusted) ==
    IF exp_adjusted <= 1 THEN ScaleAndQuantize(price, 0, 2)
    ELSE IF exp_adjusted <= 7 THEN ScaleAndQuantize(price, 0, 0)
    ELSE ScaleAndQuantize(price, exp_adjusted - (exp_adjusted % 3), 3)

\* factor_price(price): <<mantissa, exponent of the unit>>
factor_price(price) == FactorByMagnitude(price, Adjusted(price))

(***************************************************************************)
(* Database.Price and Database.Elem.                                       *)
(* Price: [level, price, unit, discount_level], unit the unit's exponent.  *)
(* Elem:  [increase_type, increase_percent, last_level, prices]; prices is *)
(* the dict level -> (dict discount level -> Price) in insertion order:    *)
(* a sequence of [level, discounts], discounts a sequence of Price.        *)
(***************************************************************************)
\* last_level = None
NoLevel == 0 - 1

\* Price.get_price(at_discount_level = None)
Price_get_price(p) == R(p.price * Unit_multiplier(p.unit))

\* float(base_price) * unit.multiplier * (1 - at_discount_level / 100)
Rediscount(factored, at_discount_level) ==
    RMul(RMul(factored[1], R(Unit_multiplier(factored[2]))),
         RNorm(100 - at_discount_level, 100))

\* Price.get_price(at_discount_level)
Price_get_price_at(p, at_discount_level) ==
    IF at_discount_level = p.discount_level THEN Price_get_price(p)
    ELSE Rediscount(factor_price(RDiv(Price_get_price(p),
                                      RNorm(100 - p.discount_level, 100))),
                    at_discount_level)

\* dict.get: the index of the key's entry, 0 when the key is absent
LevelIdx(prices, level) ==
    LET Test(e) == e.level = level IN SelectIdx(prices, Test, 1)

DiscountIdx(discounts, discount_level) ==
    LET Test(p) == p.discount_level = discount_level IN SelectIdx(discounts, Test, 1)

HasLevel(prices, level) == LevelIdx(prices, level) # 0

LevelKeys(prices) == {prices[i].level : i \in 1..Len(prices)}

MaxOf(S) == CHOOSE x \in S : \A y \in S : y <= x

\* the prices of a sequence of Price, each at the discount level asked for
PricesAt(ps, discount_level) ==
    [i \in 1..Len(ps) |-> Price_get_price_at(ps[i], discount_level)]

\* _get_price on the dict of one level: the recorded price; else the price
\* of discount 0 taken to the discount level; else the mean over all
PriceOfLevel(discounts, di, zi, discount_level) ==
    IF di # 0 THEN <<Price_get_price(discounts[di]), FALSE>>
    ELSE IF zi # 0 THEN <<PricesAt(<<discounts[zi]>>, discount_level)[1], TRUE>>
    ELSE <<RMean(PricesAt(discounts, discount_level)), TRUE>>

\* Elem._get_price(level, discount_level): <<price, is_estimate>>
Elem_get_price(elem, level, discount_level) ==
    IF elem.last_level # NoLevel /\ level >= elem.last_level THEN <<NoneVal, FALSE>>
    ELSE IF ~HasLevel(elem.prices, level) THEN <<NoneVal, FALSE>>
    ELSE PriceOfLevel(elem.prices[LevelIdx(elem.prices, level)].discounts,
                      DiscountIdx(elem.prices[LevelIdx(elem.prices, level)].discounts,
                                  discount_level),
                      DiscountIdx(elem.prices[LevelIdx(elem.prices, level)].discounts, 0),
                      discount_level)

\* Elem.get_price_information
get_price_information(elem, level, discount_level) ==
    Elem_get_price(elem, level, discount_level)

\* get_new_price_estimate.get_levels: the levels below last_level (or below
\* the highest recorded level + 1), descending
get_levels(elem) ==
    IF elem.last_level = NoLevel /\ elem.prices = <<>> THEN <<>>
    ELSE LET top == IF elem.last_level = NoLevel
                    THEN MaxOf(LevelKeys(elem.prices)) + 1
                    ELSE elem.last_level
         IN  [i \in 1..top |-> top - i]

\* get_level_pairs: (level_2, level_1) for neighbours of get_levels
get_level_pairs(elem) ==
    LET ls == get_levels(elem)
    IN  [i \in 1..(IF Len(ls) >= 2 THEN Len(ls) - 1 ELSE 0) |-> <<ls[i + 1], ls[i]>>]

\* get_consecutive_pairs: the pairs with both levels in prices
get_consecutive_pairs(elem) ==
    LET Test(pr) == HasLevel(elem.prices, pr[1]) /\ HasLevel(elem.prices, pr[2])
    IN  SelectSeq(get_level_pairs(elem), Test)

\* calculate_multiplier(level_1, level_2): the mean over the common discounts
\* of price_2 / price_1, None when no discount is common
calculate_multiplier(elem, level_1, level_2) ==
    LET discounts_1 == elem.prices[LevelIdx(elem.prices, level_1)].discounts
        discounts_2 == elem.prices[LevelIdx(elem.prices, level_2)].discounts
        Common(p) == DiscountIdx(discounts_2, p.discount_level) # 0
        common == SelectSeq(discounts_1, Common)
        ratios == [i \in 1..Len(common) |->
                     RDiv(Price_get_price(
                              discounts_2[DiscountIdx(discounts_2, common[i].discount_level)]),
                          Price_get_price(common[i]))]
    IN  IF common = <<>> THEN NoneVal ELSE RMean(ratios)

\* get_multipliers: the multipliers that are not None
get_multipliers(elem) ==
    LET pairs == get_consecutive_pairs(elem)
        ms == [i \in 1..Len(pairs) |-> calculate_multiplier(elem, pairs[i][1], pairs[i][2])]
        Known(m) == ~IsNone(m)
    IN  SelectSeq(ms, Known)

\* every price of ps times level_multiplier
Scaled(ps, level_multiplier) == [i \in 1..Len(ps) |-> RMul(ps[i], level_multiplier)]

\* the Prices of one level that get_estimates yields from: the one of the
\* discount level when it is recorded, else all of them
PricesToEstimateFrom(discounts, di) ==
    IF di = 0 THEN discounts ELSE <<discounts[di]>>

\* get_estimates(multiplier): what it yields for the level of entry e
estimates_of_level(e, level, discount_level, multiplier) ==
    Scaled(PricesAt(PricesToEstimateFrom(e.discounts,
                                         DiscountIdx(e.discounts, discount_level)),
                    discount_level),
           RPow(multiplier, level - e.level))

\* get_estimates(multiplier): over the levels in reversed insertion order
get_estimates(elem, level, discount_level, multiplier) ==
    Concat([i \in 1..Len(elem.prices) |->
               estimates_of_level(Reverse(elem.prices)[i], level, discount_level,
                                  multiplier)])

\* islice(get_multipliers(), 5)
MaxMultipliers == 5
\* islice(get_estimates(multiplier), 5)
MaxEstimates == 5

\* statistics.mean in the try block: None for the StatisticsError on no data
MeanOrNone(s) == IF s = <<>> THEN NoneVal ELSE RMean(s)

\* the second mean of get_new_price_estimate, given the first
estimate_with(elem, level, discount_level, multiplier) ==
    IF IsNone(multiplier) THEN NoneVal
    ELSE MeanOrNone(Take(get_estimates(elem, level, discount_level, multiplier),
                         MaxEstimates))

\* Elem.get_new_price_estimate(level, discount_level); None on StatisticsError
get_new_price_estimate(elem, level, discount_level) ==
    estimate_with(elem, level, discount_level,
                  MeanOrNone(Take(get_multipliers(elem), MaxMultipliers)))

payback_of_multiplier_undivided(price, multiplier) == RMul(price, multiplier)

\* price * multiplier / (multiplier - 1)
payback_of_multiplier(price, multiplier) ==
    RDiv(RMul(price, multiplier), RAdd(multiplier, R(0 - 1)))

level_multiplier_flat(increase_percent, level_percentage) ==
    RAdd(R(1), RNorm(increase_percent, 100))

\* (1 + increase_percent / 100 + level_percentage / 100) / (1 + level_percentage / 100)
level_multiplier(increase_percent, level_percentage) ==
    RDiv(RAdd(RAdd(R(1), RNorm(increase_percent, 100)), RNorm(level_percentage, 100)),
         RAdd(R(1), RNorm(level_percentage, 100)))

payback_price_unknown_percent(elem, price, level) ==
    IF elem.increase_type = "double" THEN RMul(price, R(2))
    ELSE IF elem.increase_type = "triple" THEN RMul(price, R(3))
    ELSE NoneVal

\* the payback of a price at a level, by increase_type
payback_price(elem, price, level) ==
    IF elem.increase_type = "double" THEN RMul(price, R(2))
    ELSE IF elem.increase_type = "triple" THEN RMul(price, R(3))
    ELSE payback_of_multiplier(price,
                               level_multiplier(elem.increase_percent,
                                                elem.increase_percent * level))

price_or_estimate_unmarked(elem, level, discount_level, known) ==
    IF IsNone(known[1])
    THEN <<get_new_price_estimate(elem, level, discount_level), FALSE>>
    ELSE known

\* the price of get_price_information, or when it is None the estimate,
\* marked as an estimate
price_or_estimate(elem, level, discount_level, known) ==
    IF IsNone(known[1])
    THEN <<get_new_price_estimate(elem, level, discount_level), TRUE>>
    ELSE known

\* the result of get_price_info_with_payback for <<price, is_estimate>>
with_payback(elem, level, found) ==
    IF IsNone(found[1])
    THEN [cost |-> NoneVal, payback_value |-> NoneVal, is_estimate |-> FALSE]
    ELSE [cost |-> found[1], payback_value |-> payback_price(elem, found[1], level),
          is_estimate |-> found[2]]

get_price_info_with_payback_no_estimate(elem, level, discount_level) ==
    with_payback(elem, level, get_price_information(elem, level, discount_level))

\* Elem.get_price_info_with_payback: [cost, payback_value, is_estimate]
get_price_info_with_payback(elem, level, discount_level) ==
    with_payback(elem, level,
                 price_or_estimate(elem, level, discount_level,
                                   get_price_information(elem, level, discount_level)))

add_cost_overwrite(elem, level, discount_level, price, unit_short) ==
    LET li == LevelIdx(elem.prices, level)
        prices_1 == IF li = 0
                    THEN Append(elem.prices, [level |-> level, discounts |-> <<>>])
                    ELSE elem.prices
        at == LevelIdx(prices_1, level)
        discounts == prices_1[at].discounts
        di == DiscountIdx(discounts, discount_level)
        new == [level |-> level, price |-> price,
                unit |-> get_unit_for_short(unit_short),
                discount_level |-> discount_level]
    IN  IF ~is_valid_unit_short(unit_short)
        THEN [prices |-> prices_1, raised |-> "KeyError"]
        ELSE [prices |-> [prices_1 EXCEPT ![at].discounts =
                             IF di # 0 THEN [discounts EXCEPT ![di] = new]
                             ELSE Append(discounts, new)],
              raised |-> ""]

\* Elem.add_cost(level, discount_level, price, unit_short): the prices after
\* the call and the exception it raised ("" when it returned).  A level
\* without an entry gets its empty dict before the assert and before the
\* unit is looked up.
add_cost(elem, level, discount_level, price, unit_short) ==
    LET li == LevelIdx(elem.prices, level)
        prices_1 == IF li = 0
                    THEN Append(elem.prices, [level |-> level, discounts |-> <<>>])
                    ELSE elem.prices
        at == LevelIdx(prices_1, level)
        discounts == prices_1[at].discounts
    IN  IF DiscountIdx(discounts, discount_level) # 0
        THEN [prices |-> prices_1, raised |-> "AssertionError"]
        ELSE IF ~is_valid_unit_short(unit_short)
        THEN [prices |-> prices_1, raised |-> "KeyError"]
        ELSE [prices |-> [prices_1 EXCEPT ![at].discounts =
                             Append(discounts,
                                    [level |-> level, price |-> price,
                                     unit |-> get_unit_for_short(unit_short),
                                     discount_level |-> discount_level])],
              raised |-> ""]

\* Elem.mark_completed(last_level)
mark_completed(elem, last_level) == [elem EXCEPT !.last_level = last_level]

(***************************************************************************)
(* PaybackValue, Research.                                                 *)
(***************************************************************************)
PaybackValue(research, cost, is_estimate, payback_value, level) ==
    [research |-> research, cost |-> cost, is_estimate |-> is_estimate,
     payback_value |-> payback_value, level |-> level]

\* "no value": the None of next(generator, None)
NoValue == PaybackValue("", NoneVal, FALSE, NoneVal, NoLevel)

\* Research.increase_level
increase_level(lvl) == lvl + 1

\* the PaybackValue yielded for a price information, NoValue for no cost
value_of(research, lvl, info) ==
    IF IsNone(info.cost) THEN NoValue
    ELSE PaybackValue(research, info.cost, info.is_estimate, info.payback_value, lvl)

payback_value_at_past_last(elem, research, discount_level, lvl) ==
    IF elem.last_level # NoLevel /\ lvl > elem.last_level THEN NoValue
    ELSE value_of(research, lvl, get_price_info_with_payback(elem, lvl, discount_level))

payback_value_at_no_last(elem, research, discount_level, lvl) ==
    value_of(research, lvl, get_price_info_with_payback(elem, lvl, discount_level))

\* One pass of the loop of Research.get_payback_values at `lvl`: the value
\* it yields there, NoValue when it breaks
payback_value_at(elem, research, discount_level, lvl) ==
    IF elem.last_level # NoLevel /\ lvl >= elem.last_level THEN NoValue
    ELSE value_of(research, lvl, get_price_info_with_payback(elem, lvl, discount_level))

(***************************************************************************)
(* get_next_payback_values.                                                *)
(***************************************************************************)
sort_key_none_last(x) == IF IsNone(x.payback_value) THEN R(1000) ELSE x.payback_value

\* the key of sort: payback_value, 0 when it is None
sort_key(x) == IF IsNone(x.payback_value) THEN R(0) ELSE x.payback_value

RECURSIVE InsertByKey_before_equal(_, _)
InsertByKey_before_equal(s, x) ==
    IF s = <<>> THEN <<x>>
    ELSE IF RLeq(sort_key(x), sort_key(Head(s))) THEN <<x>> \o s
    ELSE <<Head(s)>> \o InsertByKey_before_equal(Tail(s), x)

\* sorted() is stable: x goes behind every element whose key is <= its key
RECURSIVE InsertByKey(_, _)
InsertByKey(s, x) ==
    IF s = <<>> THEN <<x>>
    ELSE IF RLess(sort_key(x), sort_key(Head(s))) THEN <<x>> \o s
    ELSE <<Head(s)>> \o InsertByKey(Tail(s), x)

sort_append_only(l) == l

RECURSIVE sort(_)
\* sort(l): sorted(l, key = sort_key)
sort(l) == IF l = <<>> THEN <<>> ELSE InsertByKey(sort(SubSeq(l, 1, Len(l) - 1)), l[Len(l)])

next_start_level_same(v) == v.level

\* the level the popped value's research is asked for next: v.level + 1
next_start_level(v) == v.level + 1

\* The generator object, suspended: pc is "start" (created, not yet run),
\* "yielded" (suspended at the yield, next_value computed and not yet
\* appended) or "done" (returned); values is the local list.
NewGenerator == [pc |-> "start", values |-> <<>>, next_value |-> NoValue]

\* state.researches, in the order of the list
ResearchOrder == <<"a", "b">>

ResearchSet == {ResearchOrder[i] : i \in 1..Len(ResearchOrder)}

\* the values of a sequence that are not None
Known(vs) == LET IsValue(v) == v # NoValue IN SelectSeq(vs, IsValue)

\* the seeding loop: the first value of every research that has one
seed_values(rs, database, levels, discount) ==
    Known([i \in 1..Len(rs) |->
              payback_value_at(database[rs[i]], rs[i], discount, levels[rs[i]])])

values_at_selection_no_reinsert(g, database, levels, discount) ==
    IF g.pc = "start" THEN sort(seed_values(ResearchOrder, database, levels, discount))
    ELSE g.values

\* what the generator holds in values when it tests "while values"
values_at_selection(g, database, levels, discount) ==
    IF g.pc = "start" THEN sort(seed_values(ResearchOrder, database, levels, discount))
    ELSE IF g.pc = "yielded"
    THEN IF g.next_value # NoValue THEN sort(Append(g.values, g.next_value)) ELSE g.values
    ELSE <<>>

\* the loop from "while values" to the yield: v = values.pop(0), next_value
\* computed, v yielded; the generator returns when values is empty
pop_and_yield(values, database, discount) ==
    IF values = <<>>
    THEN [gen |-> [pc |-> "done", values |-> <<>>, next_value |-> NoValue],
          out |-> NoValue]
    ELSE [gen |-> [pc |-> "yielded", values |-> Tail(values),
                   next_value |->
                       payback_value_at(database[Head(values).research],
                                        Head(values).research, discount,
                                        next_start_level(Head(values)))],
          out |-> Head(values)]

\* next(generator): the generator after the call and the value it yielded,
\* NoValue when it raised StopIteration
get_next_payback_values(g, database, levels, discount) ==
    pop_and_yield(values_at_selection(g, database, levels, discount), database, discount)

(***************************************************************************)
(* The states the specifications start from.                               *)
(***************************************************************************)
Price(level, price, unit, discount_level) ==
    [level |-> level, price |-> price, unit |-> unit, discount_level |-> discount_level]

Entry(level, discounts) == [level |-> level, discounts |-> discounts]

Elem(increase_type, increase_percent, last_level, prices) ==
    [increase_type |-> increase_type, increase_percent |-> increase_percent,
     last_level |-> last_level, prices |-> prices]

DiscountLevels == {0, 50}

\* prices tables of a database file: nothing recorded; one level; two
\* neighbouring levels, rising and falling; recorded under a discount only;
\* levels out of order with two discounts; two levels that are no neighbours
PriceTables ==
    { <<>>,
      <<Entry(0, <<Price(0, 1, 0, 0)>>)>>,
      <<Entry(0, <<Price(0, 1, 0, 0)>>), Entry(1, <<Price(1, 2, 0, 0)>>)>>,
      <<Entry(0, <<Price(0, 4, 0, 0)>>), Entry(1, <<Price(1, 2, 0, 0)>>)>>,
      <<Entry(0, <<Price(0, 1, 0, 50)>>), Entry(1, <<Price(1, 3, 0, 50)>>)>>,
      <<Entry(1, <<Price(1, 2, 0, 0)>>),
        Entry(0, <<Price(0, 1, 0, 50), Price(0, 1, 0, 0)>>)>>,
      <<Entry(0, <<Price(0, 1, 0, 0)>>), Entry(2, <<Price(2, 4, 0, 0)>>)>> }

IncreaseKinds == {<<"double", 100>>, <<"triple", 200>>, <<"percent", 10>>}

LastLevels == {NoLevel} \cup 0..MaxLevel

Elems ==
    {Elem(k[1], k[2], ll, t) : k \in IncreaseKinds, ll \in LastLevels, t \in PriceTables}

(***************************************************************************)
(* State.                                                                  *)
(***************************************************************************)
VARIABLES
    db,              \* Database.data: research name -> Elem
    level,           \* Research.level of every research of state.researches
    discount_level,  \* State.discount_level
    gen,             \* the get_next_payback_values generator object
    emitted,         \* history: the values gen has yielded since it was created
    seq,             \* one Research.get_payback_values generator object
    call,            \* the last call of an Elem method and how it ended
    form,            \* the form the application is in
    grid,            \* NextResearches._grid.values: the rows' PaybackValues
    ask,             \* what QueryPriceForm.set_values was last given
    query,           \* the get_researches_needing_update generator object
    completed,       \* history: the researches mark_completed was called on
    editing,         \* whether beforeEditing of the form has run
    previous,        \* the form setNextFormPrevious of ASK_PRICE leads to
    ops              \* history: how many handlers have changed db or a level

appVars == <<form, grid, ask, query, completed, editing, previous, ops>>

vars == <<db, level, discount_level, gen, emitted, seq, call, appVars>>

NoAsk == [research |-> "", mode |-> "", discount_level |-> 0,
          estimated_cost |-> NoneVal, estimated_unit_short |-> "None"]

\* no application: the generator specifications leave these alone
NoApp ==
    /\ form = ""
    /\ grid = <<>>
    /\ ask = NoAsk
    /\ query = 0
    /\ completed = {}
    /\ editing = FALSE
    /\ previous = ""
    /\ ops = 0

NoCall == [op |-> "", n |-> 0, research |-> "", level |-> NoLevel,
           discount_level |-> 0, price |-> 0, unit_short |-> "", before |-> <<>>,
           raised |-> ""]

NoSeq == [research |-> "", pc |-> "done", start |-> 0, level |-> 0, out |-> <<>>]

(***************************************************************************)
(* SpecSeq: a consumer pulls from one Research.get_payback_values.         *)
(***************************************************************************)
\* get_payback_values(discount_level, start_level): the generator, created
new_payback_values(research, lvl, start_level) ==
    LET first == IF start_level = NoLevel THEN lvl ELSE start_level
    IN  [research |-> research, pc |-> "start", start |-> first, level |-> first,
         out |-> <<>>]

\* the level the loop tests next: level += 1 after a yield
resume_level(s) == IF s.pc = "start" THEN s.level ELSE s.level + 1

\* the generator after one pass of the loop at lvl gave v
after_pass(s, lvl, v) ==
    IF v = NoValue
    THEN [s EXCEPT !.pc = "done", !.level = lvl]
    ELSE [s EXCEPT !.pc = "yielded", !.level = lvl, !.out = Append(@, v)]

\* next() on it: the loop runs from the yield (level += 1) to the next yield
\* or to the break
get_payback_values(s, elem, discount) ==
    after_pass(s, resume_level(s),
               payback_value_at(elem, s.research, discount, resume_level(s)))

SeqInit ==
    \* the Elem and the level of the research whose generator is pulled
    /\ \E e \in Elems : db = [r \in ResearchSet |-> e]
    /\ \E l \in 0..MaxLevel : level = [r \in ResearchSet |-> l]
    /\ discount_level \in DiscountLevels
    /\ \E start_level \in {NoLevel} \cup 0..MaxLevel :
          seq = new_payback_values("a", level["a"], start_level)
    /\ gen = NewGenerator
    /\ emitted = <<>>
    /\ call = NoCall
    /\ NoApp

SeqNext ==
    /\ seq.pc # "done"
    /\ Len(seq.out) < MaxPulls
    /\ seq' = get_payback_values(seq, db[seq.research], discount_level)
    /\ UNCHANGED <<db, level, discount_level, gen, emitted, call, appVars>>

SpecSeq == SeqInit /\ [][SeqNext]_vars

(***************************************************************************)
(* SpecStream: a consumer pulls from one get_next_payback_values.          *)
(***************************************************************************)
StreamElems ==
    {Elem(k[1], k[2], ll, t) : k \in IncreaseKinds, ll \in {NoLevel, 2}, t \in PriceTables}

StreamInit ==
    /\ db \in [ResearchSet -> StreamElems]
    /\ level \in [ResearchSet -> 0..1]
    /\ discount_level \in DiscountLevels
    /\ gen = NewGenerator
    /\ emitted = <<>>
    /\ seq = NoSeq
    /\ call = NoCall
    /\ NoApp

StreamNext ==
    /\ gen.pc # "done"
    /\ Len(emitted) < MaxPulls
    /\ \E got \in {get_next_payback_values(gen, db, level, discount_level)} :
          /\ gen' = got.gen
          /\ emitted' = IF got.out = NoValue THEN emitted ELSE Append(emitted, got.out)
    /\ UNCHANGED <<db, level, discount_level, seq, call, appVars>>

SpecStream == StreamInit /\ [][StreamNext]_vars

(***************************************************************************)
(* SpecElem: a caller calls add_cost and mark_completed of one Elem.       *)
(***************************************************************************)
ElemLevels == {0, 1}

PriceInputs == {1, 2}

\* unit codes a caller passes: one of the registry, one that is not
UnitInputs == {"", "zz"}

ElemInit ==
    /\ \E t \in {<<>>, <<Entry(0, <<Price(0, 1, 0, 0)>>)>>} :
          db = [r \in ResearchSet |-> Elem("double", 100, NoLevel, t)]
    /\ level = [r \in ResearchSet |-> 0]
    /\ discount_level = 0
    /\ gen = NewGenerator
    /\ emitted = <<>>
    /\ seq = NoSeq
    /\ call = NoCall
    /\ NoApp

CallAddCost ==
    /\ call.n < MaxCalls
    /\ \E l \in ElemLevels, d \in DiscountLevels, price \in PriceInputs,
          unit_short \in UnitInputs :
          \E done \in {add_cost(db["a"], l, d, price, unit_short)} :
              /\ db' = [db EXCEPT !["a"].prices = done.prices]
              /\ call' = [op |-> "add_cost", n |-> call.n + 1, research |-> "a",
                          level |-> l, discount_level |-> d, price |-> price,
                          unit_short |-> unit_short, before |-> db["a"].prices,
                          raised |-> done.raised]
    /\ UNCHANGED <<level, discount_level, gen, emitted, seq, appVars>>

CallMarkCompleted ==
    /\ call.n < MaxCalls
    /\ \E l \in ElemLevels :
          /\ db' = [db EXCEPT !["a"] = mark_completed(@, l)]
          /\ call' = [op |-> "mark_completed", n |-> call.n + 1, research |-> "a",
                      level |-> l, discount_level |-> 0, price |-> 0,
                      unit_short |-> "", before |-> db["a"].prices, raised |-> ""]
    /\ UNCHANGED <<level, discount_level, gen, emitted, seq, appVars>>

ElemNext == CallAddCost \/ CallMarkCompleted

SpecElem == ElemInit /\ [][ElemNext]_vars

(***************************************************************************)
(* Spec: the application. The forms MAIN (NextResearches), ASK_PRICE       *)
(* (QueryPriceForm) and EDIT_STATE (EditStateForm), one action per handler *)
(* the framework calls.                                                    *)
(***************************************************************************)
\* UnitStorage.get_unit_for_exponent(exp).short
unit_short_for_exponent(exp) ==
    UnitDb[CHOOSE i \in 1..Len(UnitDb) : UnitDb[i][2] = exp][1]

\* level_wanted without the test against last_level
level_wanted_past_last(elem, lvl) ==
    elem.last_level = NoLevel \/ ~HasLevel(elem.prices, lvl)

\* the second condition of get_researches_needing_update, for a None price
level_wanted(elem, lvl) ==
    \/ elem.last_level = NoLevel
    \/ lvl < elem.last_level /\ ~HasLevel(elem.prices, lvl)

\* one pass of the loop of get_researches_needing_update, given the price
\* information: <<update_type, estimated_price>>, update_type "" for no yield
update_for(elem, lvl, discount, known) ==
    IF ~IsNone(known[1]) /\ known[2] THEN <<"discount", known[1]>>
    ELSE IF IsNone(known[1]) /\ level_wanted(elem, lvl)
    THEN <<"level", get_new_price_estimate(elem, lvl, discount)>>
    ELSE <<"", NoneVal>>

needing_update(elem, lvl, discount) ==
    update_for(elem, lvl, discount, get_price_information(elem, lvl, discount))

\* next(get_next_database_update_query_data, (None, None, None)) with the
\* generator about to examine the i-th research of database.data: the
\* position of the research it yields (0 when it ends) and what it yields
RECURSIVE next_needing_update(_, _, _, _)
RECURSIVE yield_or_continue(_, _, _, _, _)
yield_or_continue(update, i, database, levels, discount) ==
    IF update[1] # "" THEN [at |-> i, update |-> update]
    ELSE next_needing_update(i + 1, database, levels, discount)

next_needing_update(i, database, levels, discount) ==
    IF i > Len(ResearchOrder) THEN [at |-> 0, update |-> <<"", NoneVal>>]
    ELSE yield_or_continue(needing_update(database[ResearchOrder[i]],
                                          levels[ResearchOrder[i]], discount),
                           i, database, levels, discount)

\* mode = update_type, "level_last_known" for "level" with a last_level
mode_of(update_type, elem) ==
    IF update_type = "level" /\ elem.last_level # NoLevel THEN "level_last_known"
    ELSE update_type

\* QueryPriceForm.set_values, given factor_price(estimated_price)
set_values(discount, research, factored, mode) ==
    [research |-> research, mode |-> mode, discount_level |-> discount,
     estimated_cost |-> factored[1],
     estimated_unit_short |-> unit_short_for_exponent(factored[2])]

set_values_no_estimate(discount, research, mode) ==
    [research |-> research, mode |-> mode, discount_level |-> discount,
     estimated_cost |-> NoneVal, estimated_unit_short |-> "None"]

\* set_next_database_update_form after the next(): whether a form was set,
\* the generator (0 for None) and the values of the ASK_PRICE form
form_for(item, old_ask, database, discount) ==
    IF item.at = 0 THEN [found |-> FALSE, query |-> 0, ask |-> old_ask]
    ELSE [found |-> TRUE, query |-> item.at + 1,
          ask |-> IF IsNone(item.update[2])
                  THEN set_values_no_estimate(
                           discount, ResearchOrder[item.at],
                           mode_of(item.update[1], database[ResearchOrder[item.at]]))
                  ELSE set_values(
                           discount, ResearchOrder[item.at],
                           factor_price(item.update[2]),
                           mode_of(item.update[1], database[ResearchOrder[item.at]]))]

set_next_database_update_form(q, old_ask, database, levels, discount) ==
    form_for(next_needing_update(q, database, levels, discount), old_ask, database,
             discount)

\* ask_for_database_updates: a new generator, then its first item
ask_for_database_updates(old_ask, database, levels, discount) ==
    set_next_database_update_form(1, old_ask, database, levels, discount)

\* the for loop of beforeEditing: n more rows from the generator; raised
\* names the exception that ended it
RECURSIVE fill(_, _, _, _, _, _)
RECURSIVE fill_row(_, _, _, _, _, _)
fill_row(got, rows, n, database, levels, discount) ==
    IF got.out = NoValue
    THEN [gen |-> got.gen, rows |-> rows, raised |-> "StopIteration"]
    ELSE fill(got.gen, Append(rows, got.out), n - 1, database, levels, discount)

fill(g, rows, n, database, levels, discount) ==
    IF n = 0 THEN [gen |-> g, rows |-> rows, raised |-> ""]
    ELSE fill_row(get_next_payback_values(g, database, levels, discount), rows, n,
                  database, levels, discount)

\* parentApp.setNextFormPrevious(): the form the application was in before
\* the current one.  EDIT_STATE is entered from MAIN; ASK_PRICE from the
\* form whose handler switched to it, from_form (MAIN when onStart chose it)
setNextFormPrevious(current, from_form) ==
    IF current = "ASK_PRICE" THEN from_form ELSE "MAIN"

\* what the user types into one level field of EDIT_STATE, as int() reads
\* it; the other fields keep the level beforeEditing wrote
LevelInputs == (0 - 1)..MaxLevel

\* what the user types into the cost field: a number, or text float() rejects
CostInputs == {"1", "2", "x"}

\* the ValueError of float(text)
ValueError == 0 - 1

\* float(text) of the cost field
float(text) == IF text = "1" THEN 1 ELSE IF text = "2" THEN 2 ELSE ValueError

\* the databases the application starts with
AppTables ==
    { <<>>,
      <<Entry(0, <<Price(0, 1, 0, 0)>>)>>,
      <<Entry(0, <<Price(0, 1, 0, 0)>>), Entry(1, <<Price(1, 2, 0, 0)>>)>>,
      <<Entry(0, <<Price(0, 1, 0, 50)>>), Entry(1, <<Price(1, 2, 0, 50)>>)>> }

AppElems ==
    {Elem(k[1], k[2], ll, t) :
        k \in {<<"percent", 10>>}, ll \in {NoLevel, 2}, t \in AppTables}
        \cup {Elem("double", 100, NoLevel,
                   <<Entry(0, <<Price(0, 1, 0, 0)>>), Entry(1, <<Price(1, 2, 0, 0)>>)>>)}

\* the Elems of the second research: none recorded; prices that extrapolate
\* (the payback 2 x 2 of its level 0 is the payback 2 x 2 of level 1 of the
\* "double" Elem of the first research)
OtherElems ==
    { Elem("triple", 200, NoLevel, <<>>),
      Elem("double", 100, NoLevel,
           <<Entry(0, <<Price(0, 2, 0, 0)>>), Entry(1, <<Price(1, 4, 0, 0)>>)>>) }

Init ==
    /\ \E a \in AppElems, b \in OtherElems : db = [r \in ResearchSet |->
                                                      IF r = "a" THEN a ELSE b]
    \* state.json: the first research at level 0 or 1, the second at 0
    /\ \E l \in 0..1 : level = [r \in ResearchSet |-> IF r = "a" THEN l ELSE 0]
    /\ discount_level \in DiscountLevels
    /\ gen = NewGenerator
    /\ emitted = <<>>
    /\ seq = NoSeq
    /\ call = NoCall
    /\ grid = <<>>
    /\ completed = {}
    /\ previous = "MAIN"
    /\ ops = 0
    \* onStart: ASK_PRICE first when a research needs an update
    /\ \E first \in {ask_for_database_updates(NoAsk, db, level, discount_level)} :
          /\ ask = first.ask
          /\ query = first.query
          /\ form = IF first.found THEN "ASK_PRICE" ELSE "MAIN"
          /\ editing = first.found

\* NextResearches.beforeEditing with a loop that also moves the researches
\* to the levels it pulled
MainBeforeEditing_advancing ==
    /\ form = "MAIN"
    /\ ~editing
    /\ \E filled \in {fill(NewGenerator, <<>>, GridRows, db, level, discount_level)} :
          /\ gen' = filled.gen
          /\ grid' = filled.rows
          /\ emitted' = filled.rows
          /\ form' = IF filled.raised = "" THEN "MAIN" ELSE filled.raised
          /\ editing' = (filled.raised = "")
          /\ level' = [r \in ResearchSet |->
                          MaxOf({level[r]} \cup
                                {filled.rows[i].level : i \in
                                    {j \in 1..Len(filled.rows) :
                                        filled.rows[j].research = r}})]
    /\ UNCHANGED <<db, discount_level, seq, call, ask, query, completed, previous,
                   ops>>

\* NextResearches.beforeEditing: a new generator, and the grid filled from
\* it; a StopIteration of next() ends the application
MainBeforeEditing ==
    /\ form = "MAIN"
    /\ ~editing
    /\ \E filled \in {fill(NewGenerator, <<>>, GridRows, db, level, discount_level)} :
          /\ gen' = filled.gen
          /\ grid' = filled.rows
          /\ emitted' = filled.rows
          /\ form' = IF filled.raised = "" THEN "MAIN" ELSE filled.raised
          /\ editing' = (filled.raised = "")
    /\ UNCHANGED <<db, level, discount_level, seq, call, ask, query, completed,
                   previous, ops>>

\* NextResearches.mark_done: the research of the first row advances, the
\* row is replaced by the next of the generator, then the update query
MarkDone ==
    /\ form = "MAIN"
    /\ editing
    /\ ops < MaxOps
    /\ level[grid[1].research] < MaxLevel
    /\ ops' = ops + 1
    /\ level' = [level EXCEPT ![grid[1].research] = increase_level(@)]
    /\ \E got \in {get_next_payback_values(gen, db, level', discount_level)} :
          /\ gen' = got.gen
          /\ IF got.out = NoValue
             THEN /\ grid' = Tail(grid)
                  /\ emitted' = emitted
                  /\ form' = "StopIteration"
                  /\ editing' = FALSE
                  /\ UNCHANGED <<ask, query, previous>>
             ELSE /\ grid' = Append(Tail(grid), got.out)
                  /\ emitted' = Append(emitted, got.out)
                  /\ editing' = TRUE
                  /\ \E asked \in {ask_for_database_updates(ask, db, level',
                                                            discount_level)} :
                        /\ ask' = asked.ask
                        /\ query' = asked.query
                        /\ form' = IF asked.found THEN "ASK_PRICE" ELSE "MAIN"
                        /\ previous' = "MAIN"
    /\ UNCHANGED <<db, discount_level, seq, call, completed>>

\* NextResearches.edit_state
EditState ==
    /\ form = "MAIN"
    /\ editing
    /\ form' = "EDIT_STATE"
    /\ UNCHANGED <<db, level, discount_level, gen, emitted, seq, call, grid, ask,
                   query, completed, editing, previous, ops>>

\* NextResearches.exit
Exit ==
    /\ form = "MAIN"
    /\ editing
    /\ form' = "exit"
    /\ editing' = FALSE
    /\ UNCHANGED <<db, level, discount_level, gen, emitted, seq, call, grid, ask,
                   query, completed, previous, ops>>

\* the tests of EditStateForm.on_ok on the fields
levels_accepted(new_levels, database) ==
    \A r \in ResearchSet :
        /\ new_levels[r] >= 0
        /\ database[r].last_level = NoLevel \/ new_levels[r] <= database[r].last_level

\* EditStateForm.on_ok and, when it accepts the fields, afterEditing
EditOk ==
    /\ form = "EDIT_STATE"
    /\ ops < MaxOps
    /\ \E r \in ResearchSet, typed \in LevelInputs :
       \E new_levels \in {[level EXCEPT ![r] = typed]} :
          IF ~levels_accepted(new_levels, db)
          THEN UNCHANGED <<level, form, editing, ask, query, previous, ops>>
          ELSE /\ level' = new_levels
               /\ ops' = ops + 1
               /\ \E asked \in {ask_for_database_updates(ask, db, new_levels,
                                                         discount_level)} :
                     /\ ask' = asked.ask
                     /\ query' = asked.query
                     /\ previous' = "EDIT_STATE"
                     /\ form' = IF asked.found THEN "ASK_PRICE"
                                ELSE setNextFormPrevious("EDIT_STATE", previous)
                     /\ editing' = asked.found
    /\ UNCHANGED <<db, discount_level, gen, emitted, seq, call, grid, completed>>

\* QueryPriceForm.afterEditing over the database the handler left
QueryPriceForm_afterEditing(database) ==
    \E asked \in {set_next_database_update_form(query, ask, database, level,
                                                discount_level)} :
        /\ ask' = asked.ask
        /\ query' = asked.query
        /\ form' = IF asked.found THEN "ASK_PRICE"
                   ELSE setNextFormPrevious("ASK_PRICE", previous)
        /\ editing' = (form' # "MAIN")
        /\ previous' = previous

\* QueryPriceForm.on_ok and, when it accepts the fields, afterEditing
PriceOk ==
    /\ form = "ASK_PRICE"
    /\ ops < MaxOps
    /\ \E cost \in CostInputs, unit_short \in UnitInputs :
          IF float(cost) = ValueError \/ ~is_valid_unit_short(unit_short)
          THEN UNCHANGED <<db, form, editing, ask, query, previous, ops>>
          ELSE \E done \in {add_cost(db[ask.research], level[ask.research],
                                     ask.discount_level, float(cost), unit_short)} :
                  /\ db' = [db EXCEPT ![ask.research].prices = done.prices]
                  /\ ops' = ops + 1
                  /\ IF done.raised # ""
                     THEN /\ form' = done.raised
                          /\ editing' = FALSE
                          /\ UNCHANGED <<ask, query, previous>>
                     ELSE QueryPriceForm_afterEditing(db')
    /\ UNCHANGED <<level, discount_level, gen, emitted, seq, call, grid, completed>>

\* QueryPriceForm.on_cancel, then afterEditing
PriceCancel ==
    /\ form = "ASK_PRICE"
    /\ QueryPriceForm_afterEditing(db)
    /\ UNCHANGED <<db, level, discount_level, gen, emitted, seq, call, grid,
                   completed, ops>>

\* QueryPriceForm._mark_research_completed (its button is shown in mode
\* "level" only), then afterEditing
PriceCompleted ==
    /\ form = "ASK_PRICE"
    /\ ask.mode = "level"
    /\ ops < MaxOps
    /\ ops' = ops + 1
    /\ db' = [db EXCEPT ![ask.research] = mark_completed(@, level[ask.research])]
    /\ completed' = completed \cup {ask.research}
    /\ QueryPriceForm_afterEditing(db')
    /\ UNCHANGED <<level, discount_level, gen, emitted, seq, call, grid>>

Next ==
    \/ MainBeforeEditing
    \/ MarkDone
    \/ EditState
    \/ Exit
    \/ EditOk
    \/ PriceOk
    \/ PriceCancel
    \/ PriceCompleted

Spec == Init /\ [][Next]_vars

(***************************************************************************)
(* Properties of the application (Spec).                                   *)
(***************************************************************************)
\* C4: every pull of get_next_payback_values returns an entry, so neither the
\* fill of the grid in beforeEditing nor the refill pull of mark_done ever
\* ends in a StopIteration.
C4_EveryPullObtainsEntry == form # "StopIteration"

\* the rows of the grid that lie ahead of the level of their research
RowsAhead == {i \in 1..Len(grid) : grid[i].level > level[grid[i].research]}

\* C6: pulling from the stream changes no Research's level, no Elem and not
\* the discount level: beforeEditing (pulls only) leaves all of them as they
\* are; a level changes only in mark_done, and then it is the level of the
\* first row's research going up by one (increase_level), or in the
\* edit-state form; an Elem changes only in the price form (add_cost,
\* mark_completed), and then it is the Elem of the research asked about.
C6_PullsLeaveStateAlone ==
    [][ /\ discount_level' = discount_level
        /\ (form = "MAIN" /\ ~editing) => (db' = db /\ level' = level)
        /\ \A r \in ResearchSet :
              level'[r] # level[r] =>
                  \/ form = "EDIT_STATE"
                  \/ /\ form = "MAIN"
                     /\ editing
                     /\ r = grid[1].research
                     /\ level'[r] = level[r] + 1
        /\ \A r \in ResearchSet :
              db'[r] # db[r] => (form = "ASK_PRICE" /\ r = ask.research) ]_vars

\* beforeEditing has pulled GridRows entries, some of them ahead of the
\* research's level, and no handler has changed a level or the database
C6_Witness ==
    /\ form = "MAIN"
    /\ editing
    /\ Len(grid) = GridRows
    /\ RowsAhead # {}
    /\ ops = 0

\* whether a price is recorded for exactly (lvl, discount)
HasExactPrice(elem, lvl, discount) ==
    /\ HasLevel(elem.prices, lvl)
    /\ DiscountIdx(elem.prices[LevelIdx(elem.prices, lvl)].discounts, discount) # 0

EmittedOf(r) == LET Own(v) == v.research = r IN SelectSeq(emitted, Own)

\* the entries that wait in the generator: values, and next_value once the
\* generator has computed it and not yet appended it
Pending(g) ==
    IF g.pc = "yielded" /\ g.next_value # NoValue
    THEN Append(g.values, g.next_value) ELSE g.values

PendingOf(g, r) == LET Own(v) == v.research = r IN SelectSeq(Pending(g), Own)

\* C1: the emitted values are pairwise distinct (research, level) pairs, and
\* the levels of one research's values are its current level, then +1 each
C1_DistinctIncreasing ==
    /\ \A i, j \in 1..Len(emitted) :
          i < j => <<emitted[i].research, emitted[i].level>>
                      # <<emitted[j].research, emitted[j].level>>
    /\ \A r \in ResearchSet :
          \A k \in 1..Len(EmittedOf(r)) : EmittedOf(r)[k].level = level[r] + k - 1

C1_Witness ==
    /\ Len(emitted) = MaxPulls
    /\ \A r \in ResearchSet : Len(EmittedOf(r)) >= 2

\* C2: the value just emitted has a key <= the key of every value that was
\* pending with it when it was selected (the ones left in values)
C2_EmittedIsMinimum ==
    gen.pc = "yielded" =>
        \A i \in 1..Len(gen.values) :
            RLeq(sort_key(emitted[Len(emitted)]), sort_key(gen.values[i]))

\* an emission with another value pending, after which the emitted paybacks
\* are not monotonic
C2_Witness ==
    /\ gen.pc = "yielded"
    /\ gen.values # <<>>
    /\ \E i, j \in 1..Len(emitted) :
          i < j /\ RLess(sort_key(emitted[j]), sort_key(emitted[i]))

\* C3: at most one pending value per research; it is the value of the
\* research's forward sequence at its next level (the current level when
\* nothing of it was emitted, else the last emitted level + 1); and a research
\* with a value at that level is pending
C3_OnePendingPerResearch ==
    gen.pc \in {"yielded", "done"} =>
        \A r \in ResearchSet :
            LET pend == PendingOf(gen, r)
                next_level == level[r] + Len(EmittedOf(r))
                due == payback_value_at(db[r], r, discount_level, next_level)
            IN  /\ Len(pend) <= 1
                /\ pend # <<>> => pend[1] = due /\ pend[1].level = next_level
                /\ due # NoValue => pend # <<>>

C3_Witness ==
    /\ gen.pc = "yielded"
    /\ Len(emitted) >= 3
    /\ \A r \in ResearchSet : Len(PendingOf(gen, r)) = 1 /\ Len(EmittedOf(r)) >= 1

(***************************************************************************)
(* Properties of Research.get_payback_values (SpecSeq).                    *)
(***************************************************************************)
SeqElem == db[seq.research]

\* the levels an Elem has to give: last_level of them when it is set, else
\* the recorded ones
KnownLevels(elem) ==
    IF elem.last_level # NoLevel THEN elem.last_level ELSE Len(elem.prices)

\* last_level is unset and two neighbouring recorded levels share a discount:
\* get_new_price_estimate has a multiplier for every level
Extrapolates(elem) ==
    /\ elem.last_level = NoLevel
    /\ \E i, j \in 1..Len(elem.prices) :
          /\ elem.prices[j].level = elem.prices[i].level + 1
          /\ \E p \in 1..Len(elem.prices[i].discounts) :
                \E q \in 1..Len(elem.prices[j].discounts) :
                    elem.prices[i].discounts[p].discount_level
                        = elem.prices[j].discounts[q].discount_level

C10_ConsecutiveUntilNoCost ==
    seq.research # "" =>
        /\ \A k \in 1..Len(seq.out) :
              /\ seq.out[k].level = seq.start + k - 1
              /\ SeqElem.last_level # NoLevel => seq.out[k].level < SeqElem.last_level
              /\ ~IsNone(seq.out[k].cost)
              /\ seq.out[k].cost =
                    get_price_info_with_payback(SeqElem, seq.start + k - 1,
                                                discount_level).cost
        /\ seq.pc = "done" =>
              LET stop == seq.start + Len(seq.out)
              IN  \/ SeqElem.last_level # NoLevel /\ stop >= SeqElem.last_level
                  \/ IsNone(get_price_info_with_payback(SeqElem, stop,
                                                        discount_level).cost)

\* a sequence that yielded up to last_level - 1 and stopped there, although
\* the Elem has a price estimate for last_level
C10_Witness ==
    /\ seq.research # ""
    /\ seq.pc = "done"
    /\ Len(seq.out) >= 2
    /\ SeqElem.last_level = seq.start + Len(seq.out)
    /\ ~IsNone(get_price_info_with_payback(SeqElem, SeqElem.last_level,
                                           discount_level).cost)

(***************************************************************************)
(* Properties of Elem.add_cost (SpecElem).                                 *)
(***************************************************************************)
HasPair(prices, l, d) ==
    /\ HasLevel(prices, l)
    /\ DiscountIdx(prices[LevelIdx(prices, l)].discounts, d) # 0

PriceAt(prices, l, d) ==
    LET discounts == prices[LevelIdx(prices, l)].discounts
    IN  discounts[DiscountIdx(discounts, d)]

\* C7: add_cost for a (level, discount level) pair that holds a price fails
\* and leaves the prices table as it was; so no call changes or removes the
\* price a pair holds (it stays the first one recorded for the pair)
C7_DuplicateRejected ==
    [][ /\ ( /\ call'.op = "add_cost"
             /\ HasPair(db["a"].prices, call'.level, call'.discount_level) )
           => call'.raised # "" /\ db'["a"].prices = db["a"].prices
        /\ \A l \in ElemLevels, d \in DiscountLevels :
              HasPair(db["a"].prices, l, d) =>
                  /\ HasPair(db'["a"].prices, l, d)
                  /\ PriceAt(db'["a"].prices, l, d) = PriceAt(db["a"].prices, l, d)
      ]_vars

\* a failed add_cost of another price for a pair that holds one
C7_Witness ==
    /\ call.op = "add_cost"
    /\ call.raised = "AssertionError"
    /\ HasPair(call.before, call.level, call.discount_level)
    /\ PriceAt(call.before, call.level, call.discount_level).price # call.price
    /\ is_valid_unit_short(call.unit_short)

\* C8: add_cost with a unit short code that is not in the registry fails and
\* leaves the prices table exactly as it was before the call
C8_UnknownUnitLeavesTable ==
    (call.op = "add_cost" /\ ~is_valid_unit_short(call.unit_short)) =>
        call.raised # "" /\ db[call.research].prices = call.before

(***************************************************************************)
(* SpecPrice: a caller asks the Elem of one research for prices, and a     *)
(* consumer pulls from get_next_payback_values over the database.          *)
(***************************************************************************)
\* the tracks of the specification's example: price 100 and price 50 at
\* level 0, discount 0
ExampleTables ==
    { <<Entry(0, <<Price(0, 100, 0, 0)>>)>>, <<Entry(0, <<Price(0, 50, 0, 0)>>)>> }

\* six recorded levels, in rising order, none of them level 0
SixLevels ==
    <<Entry(1, <<Price(1, 1, 0, 0)>>), Entry(2, <<Price(2, 2, 0, 0)>>),
      Entry(3, <<Price(3, 4, 0, 0)>>), Entry(4, <<Price(4, 8, 0, 0)>>),
      Entry(5, <<Price(5, 16, 0, 0)>>), Entry(6, <<Price(6, 32, 0, 0)>>)>>

PriceElems ==
    Elems \cup {Elem(k[1], k[2], NoLevel, t) :
                   k \in IncreaseKinds, t \in ExampleTables \cup {SixLevels}}

\* the "double" track of the example
DoubleExample == Elem("double", 100, NoLevel, <<Entry(0, <<Price(0, 100, 0, 0)>>)>>)

\* the levels and discount levels a caller asks for
AskLevels == 0..(MaxLevel + 1)

AskDiscounts == DiscountLevels \cup {20}

PriceInit ==
    /\ \E e \in PriceElems : db = [r \in ResearchSet |->
                                      IF r = "a" THEN e ELSE DoubleExample]
    /\ level = [r \in ResearchSet |-> 0]
    /\ discount_level \in DiscountLevels
    /\ gen = NewGenerator
    /\ emitted = <<>>
    /\ seq = NoSeq
    /\ call = NoCall
    /\ NoApp

\* get_estimates: the level (_level) of every estimate it yields, in the
\* order it yields them
levels_of_estimates(elem, discount) ==
    Concat([i \in 1..Len(elem.prices) |->
               [j \in 1..Len(PricesToEstimateFrom(
                                 Reverse(elem.prices)[i].discounts,
                                 DiscountIdx(Reverse(elem.prices)[i].discounts,
                                             discount)))
                   |-> Reverse(elem.prices)[i].level]])

\* the levels of the estimates that islice(get_estimates(multiplier), 5)
\* hands to the mean
contributing_levels(elem, discount) ==
    Take(levels_of_estimates(elem, discount), MaxEstimates)

yields_of_any_price(elem, lvl, discount, known) ==
    (IF ~IsNone(known[1]) THEN << <<"discount", known[1]>> >> ELSE <<>>)
        \o (IF IsNone(known[1]) /\ level_wanted(elem, lvl)
            THEN << <<"level", get_new_price_estimate(elem, lvl, discount)>> >>
            ELSE <<>>)

\* what one pass of the loop of get_researches_needing_update yields for a
\* research at level lvl, in order: the two ifs of the loop body
yields_of(elem, lvl, discount, known) ==
    (IF ~IsNone(known[1]) /\ known[2] THEN << <<"discount", known[1]>> >> ELSE <<>>)
        \o (IF IsNone(known[1]) /\ level_wanted(elem, lvl)
            THEN << <<"level", get_new_price_estimate(elem, lvl, discount)>> >>
            ELSE <<>>)

\* get_price_information and get_price_info_with_payback of the Elem of "a",
\* and the pass of get_researches_needing_update for "a" at that level
CallPriceInfo ==
    /\ \E l \in AskLevels, d \in AskDiscounts :
          call' = [op |-> "get_price_info_with_payback", n |-> 1, research |-> "a",
                   level |-> l, discount_level |-> d,
                   known |-> get_price_information(db["a"], l, d),
                   info |-> get_price_info_with_payback(db["a"], l, d),
                   estimate |-> get_new_price_estimate(db["a"], l, d),
                   sources |-> contributing_levels(db["a"], d),
                   updates |-> yields_of(db["a"], l, d,
                                         get_price_information(db["a"], l, d))]
    /\ UNCHANGED <<db, level, discount_level, gen, emitted, seq, appVars>>

PriceNext == CallPriceInfo \/ StreamNext

SpecPrice == PriceInit /\ [][PriceNext]_vars

(***************************************************************************)
(* Properties of the Elem's price functions (SpecPrice).                   *)
(***************************************************************************)
\* C11: for a (level, discount level) pair that is recorded in the prices
\* table, get_price_information returns the recorded price's absolute value
\* (amount x unit multiplier) and is_estimate = False, whatever last_level is
C11_RecordedPriceReturned ==
    ( /\ call.op = "get_price_info_with_payback"
      /\ HasExactPrice(db["a"], call.level, call.discount_level) )
        => call.known = <<Price_get_price(PriceAt(db["a"].prices, call.level,
                                                  call.discount_level)), FALSE>>

\* C12: for a level at or past a set last_level, get_price_info_with_payback
\* returns (None, None, False): it never synthesizes a price there
C12_NoEstimateAtOrPastLastLevel ==
    ( /\ call.op = "get_price_info_with_payback"
      /\ db["a"].last_level # NoLevel
      /\ call.level >= db["a"].last_level )
        => call.info = [cost |-> NoneVal, payback_value |-> NoneVal,
                        is_estimate |-> FALSE]

\* the pair is recorded and _get_price reads it (the level is below last_level)
ReadsRecorded(elem, l, d) ==
    /\ HasExactPrice(elem, l, d)
    /\ (elem.last_level = NoLevel \/ l < elem.last_level)

\* the level is recorded, below last_level, and the pair is not recorded
Renormalises(elem, l, d) ==
    /\ HasLevel(elem.prices, l)
    /\ ~HasExactPrice(elem, l, d)
    /\ (elem.last_level = NoLevel \/ l < elem.last_level)

\* the discount-0 price of the level taken to discount d, else the mean of
\* all recorded prices of the level taken to discount d
RenormalisedPrice(discounts, d) ==
    IF DiscountIdx(discounts, 0) # 0
    THEN Price_get_price_at(discounts[DiscountIdx(discounts, 0)], d)
    ELSE RMean(PricesAt(discounts, d))

\* the price that is not a recorded observation
DerivedPrice(elem, l, d) ==
    IF Renormalises(elem, l, d)
    THEN RenormalisedPrice(elem.prices[LevelIdx(elem.prices, l)].discounts, d)
    ELSE get_new_price_estimate(elem, l, d)

FlagOfCall(elem, l, d, info) ==
    IF ReadsRecorded(elem, l, d)
    THEN /\ ~info.is_estimate
         /\ info.cost = Price_get_price(PriceAt(elem.prices, l, d))
    ELSE /\ info.is_estimate
         /\ info.cost = DerivedPrice(elem, l, d)

FlagOfEntry(e) ==
    IF ReadsRecorded(db[e.research], e.level, discount_level)
    THEN /\ ~e.is_estimate
         /\ e.cost = Price_get_price(PriceAt(db[e.research].prices, e.level,
                                             discount_level))
    ELSE /\ e.is_estimate
         /\ e.cost = DerivedPrice(db[e.research], e.level, discount_level)

\* C13: when get_price_info_with_payback returns a price, is_estimate is
\* False exactly when the price is the recorded observation of the asked
\* (level, discount level) pair, and True when it is the renormalised price
\* of the level (discount 0 preferred, else the mean) or the cross-level
\* estimate; the same for every entry get_next_payback_values emits
C13_EstimateFlag ==
    /\ ( call.op = "get_price_info_with_payback" /\ ~IsNone(call.info.cost) )
          => FlagOfCall(db["a"], call.level, call.discount_level, call.info)
    /\ \A i \in 1..Len(emitted) : FlagOfEntry(emitted[i])

\* a call answered by renormalisation, after the stream emitted a recorded
\* price and an estimate
C13_Witness ==
    /\ call.op = "get_price_info_with_payback"
    /\ Renormalises(db["a"], call.level, call.discount_level)
    /\ call.info.is_estimate
    /\ \E i \in 1..Len(emitted) : ~emitted[i].is_estimate
    /\ \E i \in 1..Len(emitted) : emitted[i].is_estimate

\* the "fixed-percent" track of the example: p = 10, price 50 at level 0
PercentExample == Elem("percent", 10, NoLevel, <<Entry(0, <<Price(0, 50, 0, 0)>>)>>)

\* price x 2, price x 3, price x (100 + p x (level + 1)) / p
PaybackOf(elem, price, l) ==
    IF elem.increase_type = "double" THEN RMul(price, R(2))
    ELSE IF elem.increase_type = "triple" THEN RMul(price, R(3))
    ELSE RMul(price, RNorm(100 + elem.increase_percent * (l + 1),
                           elem.increase_percent))

MaxGiven == 2

\* the payback values a given entry carries: None, 0 and two positive ones
GivenPaybacks == {NoneVal, R(0), R(1), R(2)}

\* the research objects: the payback_value of the value of each level
GivenResearches ==
    UNION {[1..n -> GivenPaybacks] : n \in 0..MaxGiven}

\* next(r.get_payback_values(discount_level, lvl), None) of a given research
value_given(paybacks, research, lvl) ==
    IF lvl < Len(paybacks)
    THEN PaybackValue(research, R(1), FALSE, paybacks[lvl + 1], lvl)
    ELSE NoValue

\* the seeding loop over the given researches
seed_given(rs, given) ==
    Known([i \in 1..Len(rs) |-> value_given(given[rs[i]], rs[i], 0)])

\* values when the generator tests "while values"
values_given(g, given) ==
    IF g.pc = "start" THEN sort(seed_given(ResearchOrder, given))
    ELSE IF g.pc = "yielded"
    THEN IF g.next_value # NoValue THEN sort(Append(g.values, g.next_value)) ELSE g.values
    ELSE <<>>

\* v = values.pop(0), next_value computed, v yielded
pop_given(values, given) ==
    IF values = <<>>
    THEN [gen |-> [pc |-> "done", values |-> <<>>, next_value |-> NoValue],
          out |-> NoValue]
    ELSE [gen |-> [pc |-> "yielded", values |-> Tail(values),
                   next_value |-> value_given(given[Head(values).research],
                                              Head(values).research,
                                              next_start_level(Head(values)))],
          out |-> Head(values)]

SortInit ==
    /\ db \in [ResearchSet -> GivenResearches]
    /\ level = [r \in ResearchSet |-> 0]
    /\ discount_level = 0
    /\ gen = NewGenerator
    /\ emitted = <<>>
    /\ seq = NoSeq
    /\ call = NoCall
    /\ NoApp

SortNext ==
    /\ gen.pc # "done"
    /\ \E got \in {pop_given(values_given(gen, db), db)} :
          /\ gen' = got.gen
          /\ emitted' = IF got.out = NoValue THEN emitted ELSE Append(emitted, got.out)
    /\ UNCHANGED <<db, level, discount_level, seq, call, appVars>>

SpecSort == SortInit /\ [][SortNext]_vars

\* the place of value v in the emitted sequence, 0 when it was not emitted
EmittedAt(v) ==
    IF \E i \in 1..Len(emitted) : emitted[i] = v
    THEN CHOOSE i \in 1..Len(emitted) : emitted[i] = v
    ELSE 0

\* C15: an entry whose payback_value is None sorts with key 0: when the
\* working set is seeded with such an entry and with entries of strictly
\* positive payback_value, the entry of unknown payback is emitted before
\* every one of the positive ones
C15_UnknownPaybackFirst ==
    \A i, j \in 1..Len(seed_given(ResearchOrder, db)) :
        ( /\ IsNone(seed_given(ResearchOrder, db)[i].payback_value)
          /\ ~IsNone(seed_given(ResearchOrder, db)[j].payback_value)
          /\ RLess(R(0), seed_given(ResearchOrder, db)[j].payback_value)
          /\ EmittedAt(seed_given(ResearchOrder, db)[j]) # 0 )
            => /\ EmittedAt(seed_given(ResearchOrder, db)[i]) # 0
               /\ EmittedAt(seed_given(ResearchOrder, db)[i])
                      < EmittedAt(seed_given(ResearchOrder, db)[j])

\* the seed holds a positive payback before an unknown one; both are emitted
C15_Witness ==
    /\ Len(seed_given(ResearchOrder, db)) = 2
    /\ RLess(R(0), seed_given(ResearchOrder, db)[1].payback_value)
    /\ IsNone(seed_given(ResearchOrder, db)[2].payback_value)
    /\ EmittedAt(seed_given(ResearchOrder, db)[1]) # 0
    /\ EmittedAt(seed_given(ResearchOrder, db)[2]) # 0

(***************************************************************************)
(* SpecFactor: factor_price of an absolute value, then factor_price of     *)
(* mantissa x unit multiplier (what save, load and save again do).         *)
(***************************************************************************)
MaxSmall == 24

\* absolute values: small ones in wholes, halves and eighths, and values at
\* and just below 10^2, 10^8 and 10^9
FactorInputs ==
    {RNorm(n, d) : n \in 0..MaxSmall, d \in {1, 2, 8}}
        \cup { RNorm(99999, 1000), RNorm(199, 2), R(100), R(101),
               R(12345678), R(99999999), RNorm(199999999, 2), R(100000000),
               R(123456789), R(999999499), RNorm(1999999999, 2), R(1000000000) }

\* mantissa x unit.multiplier
reconstruct(factored) == RMul(factored[1], R(Unit_multiplier(factored[2])))

FactorInit ==
    /\ db = [r \in ResearchSet |-> Elem("double", 100, NoLevel, <<>>)]
    /\ level = [r \in ResearchSet |-> 0]
    /\ discount_level = 0
    /\ gen = NewGenerator
    /\ emitted = <<>>
    /\ seq = NoSeq
    /\ call \in {[op |-> "price", price |-> x] : x \in FactorInputs}
    /\ NoApp

CallFactorPrice ==
    /\ call.op = "price"
    /\ call' = [op |-> "factor_price", price |-> call.price,
                factored |-> factor_price(call.price)]
    /\ UNCHANGED <<db, level, discount_level, gen, emitted, seq, appVars>>

CallFactorPriceAgain ==
    /\ call.op = "factor_price"
    /\ call' = [op |-> "factor_price_again", price |-> call.price,
                factored |-> call.factored,
                again |-> factor_price(reconstruct(call.factored))]
    /\ UNCHANGED <<db, level, discount_level, gen, emitted, seq, appVars>>

FactorNext == CallFactorPrice \/ CallFactorPriceAgain

SpecFactor == FactorInit /\ [][FactorNext]_vars

\* C16: with (c, u) = factor_price(x) for x >= 0, factor_price of
\* c x u.multiplier is the same (mantissa, unit) pair (c, u), also when the
\* mantissa of x rounds up across a magnitude boundary
C16_FactorRoundTrip ==
    call.op = "factor_price_again" => call.again = call.factored

(***************************************************************************)
(* SpecLoad: State.__init__ on the content of a state file and a database. *)
(***************************************************************************)
MaxNames == 3

NamePool == <<"a", "b", "c", "d", "e">>

LoadNames == {NamePool[i] : i \in 1..MaxNames}

\* the keys of a JSON object, in the order of the file: no key twice
KeyOrders ==
    {o \in UNION {[1..n -> LoadNames] : n \in 0..MaxNames} :
        \A i, j \in 1..Len(o) : i # j => o[i] # o[j]}

SavedLevels == {0, 1}

\* data["researches"] of the state file: name -> level
SavedResearches ==
    UNION {{[i \in 1..Len(o) |-> [name |-> o[i], level |-> f[i]]] :
               f \in [1..Len(o) -> SavedLevels]} : o \in KeyOrders}

\* Research.__init__: level 0 for start_level None
Research(name, start_level) ==
    [name |-> name, level |-> IF start_level = NoLevel THEN 0 ELSE start_level]

NamesOf(s) == {s[i].name : i \in 1..Len(s)}

KeysOf(database) == {database[i] : i \in 1..Len(database)}

\* the database entries the first loop made no Research for
not_yet_loaded(saved, database) ==
    LET Missing(key) == key \notin NamesOf(saved) IN SelectSeq(database, Missing)

\* State.__init__(path, database): database.data[key] raises KeyError for a
\* saved name the database does not hold
State_init(saved, database) ==
    IF \E i \in 1..Len(saved) : saved[i].name \notin KeysOf(database)
    THEN [researches |-> <<>>, raised |-> "KeyError"]
    ELSE [researches |->
              [i \in 1..Len(saved) |-> Research(saved[i].name, saved[i].level)]
                  \o [i \in 1..Len(not_yet_loaded(saved, database)) |->
                         Research(not_yet_loaded(saved, database)[i], NoLevel)],
          raised |-> ""]

LoadInit ==
    /\ db = [r \in ResearchSet |-> Elem("double", 100, NoLevel, <<>>)]
    /\ level = [r \in ResearchSet |-> 0]
    /\ discount_level = 0
    /\ gen = NewGenerator
    /\ emitted = <<>>
    /\ seq = NoSeq
    /\ call \in {[op |-> "files", saved |-> s, database |-> d] :
                    s \in SavedResearches, d \in KeyOrders}
    /\ NoApp

LoadState ==
    /\ call.op = "files"
    /\ call' = [op |-> "State", saved |-> call.saved, database |-> call.database,
                state |-> State_init(call.saved, call.database)]
    /\ UNCHANGED <<db, level, discount_level, gen, emitted, seq, appVars>>

SpecLoad == LoadInit /\ [][LoadState]_vars

\* C17: loading State succeeds when a saved research name is not in the
\* database (the name is dropped), and afterwards state.researches holds
\* exactly one Research for each database entry and none for anything else
C17_LoadDropsUnknown ==
    call.op = "State"
        => /\ call.state.raised = ""
           /\ NamesOf(call.state.researches) = KeysOf(call.database)
           /\ Len(call.state.researches) = Len(call.database)

\* the update types one pass yielded
TypesOf(updates) == {updates[i][1] : i \in 1..Len(updates)}

\* the research is not complete at level l
NotComplete(elem, l) == elem.last_level = NoLevel \/ l < elem.last_level

\* C18: one pass of get_researches_needing_update yields at most one item
\* for a research: "discount" exactly when the current level has recorded
\* prices, none of them at the current discount level, and the level is
\* below last_level (or last_level is unset); "level" exactly when the
\* current level has no recorded price and the research is not complete;
\* nothing when (current level, current discount) is recorded
C18_OneUpdatePerResearch ==
    call.op = "get_price_info_with_payback"
        => /\ Len(call.updates) <= 1
           /\ "discount" \in TypesOf(call.updates)
                 <=> /\ HasLevel(db["a"].prices, call.level)
                     /\ ~HasExactPrice(db["a"], call.level, call.discount_level)
                     /\ NotComplete(db["a"], call.level)
           /\ "level" \in TypesOf(call.updates)
                 <=> /\ ~HasLevel(db["a"].prices, call.level)
                     /\ NotComplete(db["a"], call.level)
           /\ HasExactPrice(db["a"], call.level, call.discount_level)
                 => call.updates = <<>>
           /\ update_for(db["a"], call.level, call.discount_level, call.known)
                 = IF call.updates = <<>> THEN <<"", NoneVal>> ELSE call.updates[1]

\* a pass that yielded "discount" for a level recorded at another discount
C18_Witness ==
    /\ call.op = "get_price_info_with_payback"
    /\ HasLevel(db["a"].prices, call.level)
    /\ ~HasExactPrice(db["a"], call.level, call.discount_level)
    /\ call.updates # <<>>
    /\ call.updates[1][1] = "discount"

\* the distance of level k from the target level l
Distance(k, l) == Abs(k - l)

\* C19: the known levels whose prices go into the mean of
\* get_new_price_estimate(level, discount) are the known levels closest to
\* the target level, closest first, and at most 5 of them, whatever the
\* content and insertion order of prices and whatever the target level
C19_ClosestLevelsContribute ==
    ( call.op = "get_price_info_with_payback" /\ ~IsNone(call.estimate) )
        => /\ \A i, j \in 1..Len(call.sources) :
                 i < j => Distance(call.sources[i], call.level)
                              <= Distance(call.sources[j], call.level)
           /\ \A k \in LevelKeys(db["a"].prices) :
                 k \notin {call.sources[i] : i \in 1..Len(call.sources)}
                    => \A i \in 1..Len(call.sources) :
                          Distance(call.sources[i], call.level)
                              <= Distance(k, call.level)
           /\ Cardinality({call.sources[i] : i \in 1..Len(call.sources)}) <= 5

\* the (research, level) of every row
RowsOf(rows) == [i \in 1..Len(rows) |-> <<rows[i].research, rows[i].level>>]

\* C20: after mark_done advanced the research of the first row (database
\* and discount level as they were), the rows of the grid, continued from
\* the generator built before, are the first rows of a generator built by
\* get_next_payback_values from the state after the advance, also when two
\* pending values have the same payback
C20_ContinuedEqualsRebuilt ==
    ( form = "MAIN" /\ editing /\ Len(emitted) > GridRows )
        => RowsOf(grid) = RowsOf(fill(NewGenerator, <<>>, GridRows, db, level,
                                      discount_level).rows)

(***************************************************************************)
(* SpecPayback: get_price_info_with_payback of a "percent" Elem that holds *)
(* the same price at a level and at the next level.                        *)
(***************************************************************************)
\* increase_percent of the Elem
PercentInputs == {1, 5, 10, 50, 100}

\* the recorded price, the same at both levels
MaxFixedPrice == 5

\* the Elem of percent p with price x recorded at levels l and l + 1
FixedPriceElem(p, x, l) ==
    Elem("percent", p, NoLevel,
         <<Entry(l, <<Price(l, x, 0, 0)>>), Entry(l + 1, <<Price(l + 1, x, 0, 0)>>)>>)

PaybackInit ==
    /\ db = [r \in ResearchSet |-> Elem("double", 100, NoLevel, <<>>)]
    /\ level = [r \in ResearchSet |-> 0]
    /\ discount_level = 0
    /\ gen = NewGenerator
    /\ emitted = <<>>
    /\ seq = NoSeq
    /\ call \in {[op |-> "elem", percent |-> p, price |-> x, level |-> l] :
                    p \in PercentInputs, x \in 1..MaxFixedPrice, l \in 0..MaxLevel}
    /\ NoApp

\* get_price_info_with_payback at the level and at the next one, and the
\* multiplier computed at each
CallPaybackAtLevels ==
    /\ call.op = "elem"
    /\ call' = [op |-> "payback", percent |-> call.percent, price |-> call.price,
                level |-> call.level,
                multiplier |-> level_multiplier(call.percent,
                                                call.percent * call.level),
                next_multiplier |-> level_multiplier(call.percent,
                                                     call.percent * (call.level + 1)),
                info |-> get_price_info_with_payback(
                             FixedPriceElem(call.percent, call.price, call.level),
                             call.level, 0),
                next_info |-> get_price_info_with_payback(
                                  FixedPriceElem(call.percent, call.price, call.level),
                                  call.level + 1, 0)]
    /\ UNCHANGED <<db, level, discount_level, gen, emitted, seq, appVars>>

SpecPayback == PaybackInit /\ [][CallPaybackAtLevels]_vars

\* C21 as claimed: for a "percent" Elem with p > 0 and a fixed price the
\* multiplier rises with level and the payback of
\* get_price_info_with_payback does not grow (payback at level + 1 <=
\* payback at level)
C21_PaybackShrinks ==
    call.op = "payback"
        => /\ RLeq(call.multiplier, call.next_multiplier)
           /\ RLeq(call.next_info.payback_value, call.info.payback_value)

\* C21 as amended: the multiplier falls with level and stays above 1, and
\* the payback price x m / (m - 1) = price x (100 + p x (level + 1)) / p
\* grows with level: it is above the price and above the payback of the
\* level before
C21_PaybackGrows ==
    call.op = "payback"
        => /\ call.info.cost = R(call.price)
           /\ call.next_info.cost = R(call.price)
           /\ RLess(call.next_multiplier, call.multiplier)
           /\ RLess(R(1), call.next_multiplier)
           /\ RLess(call.info.payback_value, call.next_info.payback_value)
           /\ RLess(call.info.cost, call.info.payback_value)

\* the Elem of percent 10 with price 5, asked at levels 1 and 2
C21_Witness ==
    /\ call.op = "payback"
    /\ call.percent = 10
    /\ call.price = 5
    /\ call.level = 1
    /\ call.info.payback_value = R(60)
    /\ call.next_info.payback_value = R(65)

\* C22: from a state where every research has 0 <= level <= last_level
\* (when last_level is set), after any sequence of mark_done, edit-state
\* on_ok, price-form on_ok and "research is completed", every research
\* still has 0 <= level <= last_level; mark_done never takes a research
\* past its last_level
C22_LevelWithinLastLevel ==
    \A r \in ResearchSet :
        /\ level[r] >= 0
        /\ db[r].last_level = NoLevel \/ level[r] <= db[r].last_level

\* mark_done has brought a research to its last_level
C22_Witness ==
    /\ Len(emitted) > GridRows
    /\ \E r \in ResearchSet :
          /\ db[r].last_level # NoLevel
          /\ level[r] = db[r].last_level

(***************************************************************************)
(* Null costs and paybacks of the entries, under SpecPrice.                *)
(***************************************************************************)
\* NextResearches._get_row_data: the payback cell is "???"
shows_unknown(value) == IsNone(value.payback_value)

\* the entry has a cost and a payback, so its sort key is its payback
HasCostAndPayback(v) ==
    /\ ~IsNone(v.cost)
    /\ ~IsNone(v.payback_value)
    /\ sort_key(v) = v.payback_value

\* C24: get_price_info_with_payback returns a null payback only together
\* with a null cost, so every entry emitted by get_next_payback_values and
\* every entry waiting in its working set has a cost and a payback: no
\* sort key is the 0 of an unknown payback and no row made of an emitted
\* entry shows "???"
C24_EntriesHaveCostAndPayback ==
    /\ call.op = "get_price_info_with_payback"
          => (IsNone(call.info.payback_value) <=> IsNone(call.info.cost))
    /\ \A i \in 1..Len(emitted) :
          HasCostAndPayback(emitted[i]) /\ ~shows_unknown(emitted[i])
    /\ \A i \in 1..Len(Pending(gen)) : HasCostAndPayback(Pending(gen)[i])

\* a call returned no cost and no payback at a level, the sequence of that
\* research ended before that level, and its last emitted entry is an
\* estimate of a percent research
C24_Witness ==
    /\ call.op = "get_price_info_with_payback"
    /\ IsNone(call.info.cost)
    /\ IsNone(call.info.payback_value)
    /\ call.discount_level = discount_level
    /\ db[call.research].increase_type = "percent"
    /\ gen.pc = "done"
    /\ \E i \in 1..Len(emitted) :
          /\ emitted[i].research = call.research
          /\ emitted[i].level = call.level - 1
          /\ emitted[i].is_estimate

(***************************************************************************)
(* SpecPull: a consumer that keeps pulling from get_next_payback_values    *)
(* over researches whose get_payback_values either ends or never ends.     *)
(* A research that never ends repeats its values with the period of its    *)
(* payback sequence (it reports the level modulo the period), so that the  *)
(* generator has finitely many states.                                     *)
(***************************************************************************)
PullPaybacks == {R(1), R(2)}

\* research objects: the payback of the value of each level, and whether
\* the sequence goes on for ever (then over at least two levels, so that
\* every pull changes the generator)
PullResearches ==
    {[paybacks |-> ps, unbounded |-> FALSE] :
        ps \in UNION {[1..n -> PullPaybacks] : n \in 0..MaxGiven}}
        \cup {[paybacks |-> ps, unbounded |-> TRUE] :
                 ps \in UNION {[1..n -> PullPaybacks] : n \in 2..MaxGiven}}

\* next(r.get_payback_values(discount_level, lvl), None)
value_pulled(res, research, lvl) ==
    IF res.unbounded
    THEN PaybackValue(research, R(1), FALSE,
                      res.paybacks[(lvl % Len(res.paybacks)) + 1],
                      lvl % Len(res.paybacks))
    ELSE IF lvl < Len(res.paybacks)
    THEN PaybackValue(research, R(1), FALSE, res.paybacks[lvl + 1], lvl)
    ELSE NoValue

\* the seeding loop
seed_pulled(rs, given) ==
    Known([i \in 1..Len(rs) |-> value_pulled(given[rs[i]], rs[i], 0)])

\* values when the generator tests "while values"
values_pulled(g, given) ==
    IF g.pc = "start" THEN sort(seed_pulled(ResearchOrder, given))
    ELSE IF g.pc = "yielded"
    THEN IF g.next_value # NoValue THEN sort(Append(g.values, g.next_value)) ELSE g.values
    ELSE <<>>

\* v = values.pop(0), next_value computed, v yielded
pop_pulled(values, given) ==
    IF values = <<>>
    THEN [gen |-> [pc |-> "done", values |-> <<>>, next_value |-> NoValue],
          out |-> NoValue]
    ELSE [gen |-> [pc |-> "yielded", values |-> Tail(values),
                   next_value |-> value_pulled(given[Head(values).research],
                                               Head(values).research,
                                               next_start_level(Head(values)))],
          out |-> Head(values)]

\* the distinct values pulled so far, in the order of their first pull
logged(log, v) ==
    IF v = NoValue \/ (\E i \in 1..Len(log) : log[i] = v) THEN log ELSE Append(log, v)

PullInit ==
    /\ db \in [ResearchSet -> PullResearches]
    /\ level = [r \in ResearchSet |-> 0]
    /\ discount_level = 0
    /\ gen = NewGenerator
    /\ emitted = <<>>
    /\ seq = NoSeq
    /\ call = NoCall
    /\ NoApp

\* next(generator) by the consumer
PullNext ==
    /\ gen.pc # "done"
    /\ \E got \in {pop_pulled(values_pulled(gen, db), db)} :
          /\ gen' = got.gen
          /\ emitted' = logged(emitted, got.out)
    /\ UNCHANGED <<db, level, discount_level, seq, call, appVars>>

\* the consumer keeps pulling until the generator is exhausted
SpecPull == PullInit /\ [][PullNext]_vars /\ WF_vars(PullNext)

\* the values a research of PullResearches can yield
PullValues ==
    {PaybackValue(r, R(1), FALSE, p, l) :
        r \in ResearchSet, p \in PullPaybacks, l \in 0..(MaxGiven - 1)}

\* v is in the working set
IsPending(v) == \E i \in 1..Len(Pending(gen)) : Pending(gen)[i] = v

WasEmitted(v) == \E i \in 1..Len(emitted) : emitted[i] = v

\* another research never ends and every payback it yields is strictly
\* below the payback of v
Undercut(v) ==
    \E r \in ResearchSet :
        /\ r # v.research
        /\ db[r].unbounded
        /\ \A i \in 1..Len(db[r].paybacks) :
              RLess(db[r].paybacks[i], sort_key(v))

\* C23 as claimed: while the consumer keeps pulling, every entry placed in
\* the working set is eventually emitted, whatever the researches and their
\* paybacks, also when a research's sequence never ends
C23_NoStarvation ==
    \A v \in PullValues : IsPending(v) ~> WasEmitted(v)

\* an entry of strictly smaller payback is in the working set
Preceded(v) ==
    \E i \in 1..Len(Pending(gen)) : RLess(sort_key(Pending(gen)[i]), sort_key(v))

\* C23 as amended: while the consumer keeps pulling, an entry in the
\* working set is emitted unless entries of strictly smaller payback keep
\* arriving: an entry that no entry of the working set precedes with a
\* strictly smaller payback is later emitted or so preceded, and an entry
\* is never emitted when another research never ends and yields only
\* paybacks strictly below the entry's
C23_EmittedUnlessUndercut ==
    /\ [](\A i \in 1..Len(emitted) : ~Undercut(emitted[i]))
    /\ \A v \in PullValues :
          (IsPending(v) /\ ~Preceded(v)) ~> (WasEmitted(v) \/ Preceded(v))

\* a research that never ends has been pulled from twice round while an
\* entry of the other research, of the same payback, waited and was emitted
C23_Witness ==
    /\ db["a"].unbounded
    /\ db["a"].paybacks = <<R(1), R(2)>>
    /\ db["b"] = [paybacks |-> <<R(2)>>, unbounded |-> FALSE]
    /\ WasEmitted(PaybackValue("b", R(1), FALSE, R(2), 0))
    /\ WasEmitted(PaybackValue("a", R(1), FALSE, R(2), 1))

=============================================================================
